---- MODULE Spec2Model ----
(***************************************************************************)
(* Model of the search proxy of Playground-Ai-Search-REST-API: the request *)
(* handler of index.ts (compiled to index.ts.js) run as a sequence of      *)
(* invocations, one await at a time.                                       *)
(*                                                                         *)
(* Text is a sequence of pieces (strings); the characters that JSON or     *)
(* percent-encoding treat specially always stand alone as one piece, so    *)
(* the encoders below work piece by piece as the runtime works character   *)
(* by character.  Join turns a text into the string it denotes.            *)
(* A JSON value read from the upstream body is a tagged record; the tag    *)
(* "undef" stands for a property that is absent.                           *)
(***************************************************************************)
EXTENDS Integers, Sequences, FiniteSets, TLC

VARIABLES impl, pc, req, outbound, reply, resp, log

(* The Server of std/http/server.ts that runs the handler: its private   *)
(* fields, the position of serve() in its accept loop, and what it holds  *)
(* of each connection and of each request.                                *)
VARIABLES handler, closed, listeners, httpConnections, listenerOpen,
          servePc, acceptBackoffDelay, cn, rq, thrown

svars == <<handler, closed, listeners, httpConnections, listenerOpen,
           servePc, acceptBackoffDelay, cn, rq, thrown>>

vars == <<impl, pc, req, outbound, reply, resp, log, svars>>

(* Largest number of elements of the upstream result array. *)
MaxData == 2

(* Number of connections the clients open, and of requests they send. *)
MaxConns == 2
MaxReqs == 2
MaxAcceptErrors == 2

-----------------------------------------------------------------------------
(* Text helpers *)

RECURSIVE Join(_)
Join(s) == IF s = <<>> THEN "" ELSE Head(s) \o Join(Tail(s))

-----------------------------------------------------------------------------
(* The two copies of the handler and their upstream URL templates *)

Impls == {"js", "ts"}

SearchUrlPrefix(i) ==
    IF i = "js"
    THEN "https://playground.com/_next/data/ba0kOy0FZsenBfbBIZHrR/search.json?q="
    ELSE "https://playground.com/_next/data/DKheFsybTy-HQ-Exsbzy9/search.json?q="

(* encodeURIComponent, one character: the unreserved characters are kept, *)
(* every other character becomes the %XX of each of its UTF-8 bytes.       *)
Unreserved == {"f", "o", "a", "b", "-", "_", ".", "!", "~", "*", "'", "(", ")"}

EncodeChar(c) ==
    IF c \in Unreserved THEN <<c>>
    ELSE IF c = " " THEN <<"%", "2", "0">>
    ELSE IF c = "\"" THEN <<"%", "2", "2">>
    ELSE IF c = "%" THEN <<"%", "2", "5">>
    ELSE IF c = "&" THEN <<"%", "2", "6">>
    ELSE IF c = "+" THEN <<"%", "2", "B">>
    ELSE IF c = "\\" THEN <<"%", "5", "C">>
    ELSE <<"%", "3", "F">>

RECURSIVE encodeURIComponent(_)
encodeURIComponent(s) ==
    IF s = <<>> THEN <<>> ELSE EncodeChar(Head(s)) \o encodeURIComponent(Tail(s))

(* Variant: the query put into the URL without encodeURIComponent. *)
searchUrlRaw(i, query) == SearchUrlPrefix(i) \o Join(query)

searchUrl(i, query) == SearchUrlPrefix(i) \o Join(encodeURIComponent(query))

-----------------------------------------------------------------------------
(* JSON.stringify of the objects the handler builds *)

EscapeChar(c) ==
    IF c = "\"" THEN <<"\\\"">>
    ELSE IF c = "\\" THEN <<"\\\\">>
    ELSE <<c>>

RECURSIVE EscapeAll(_)
EscapeAll(s) == IF s = <<>> THEN <<>> ELSE EscapeChar(Head(s)) \o EscapeAll(Tail(s))

JSONQuote(s) == "\"" \o Join(EscapeAll(s)) \o "\""

(* A scalar JSON value: absent, null, a string or a number (its digits). *)
Undef == [t |-> "undef", v |-> <<>>]
Null == [t |-> "null", v |-> <<>>]
Str(s) == [t |-> "str", v |-> s]
Num(s) == [t |-> "num", v |-> s]

StringifyValue(x) ==
    IF x.t = "str" THEN JSONQuote(x.v)
    ELSE IF x.t = "num" THEN Join(x.v)
    ELSE "null"

(* The members of an object literal, as <<key, value>> in source order:   *)
(* a member whose value is undefined is left out.                          *)
RECURSIVE StringifyMembers(_, _)
StringifyMembers(members, first) ==
    IF members = <<>> THEN ""
    ELSE LET m == Head(members) IN
         IF m[2].t = "undef" THEN StringifyMembers(Tail(members), first)
         ELSE (IF first THEN "" ELSE ",") \o "\"" \o m[1] \o "\":"
              \o StringifyValue(m[2]) \o StringifyMembers(Tail(members), FALSE)

JSONstringify(members) == "{" \o StringifyMembers(members, TRUE) \o "}"

-----------------------------------------------------------------------------
(* JavaScript values and errors *)

(* x || "N/A" takes the right-hand side exactly when x is falsy: absent, *)
(* null, the empty string or the number 0.                                *)
Truthy(x) == (x.t = "str" /\ x.v # <<>>) \/ (x.t = "num" /\ x.v # <<"0">>)

Error(name, message) == [name |-> name, message |-> message]
NoError == Error("", "")

(* Reading property p of null or undefined throws a TypeError. *)
ReadOfNullish(t, p) ==
    Error("TypeError", "Cannot read properties of " \o
          (IF t = "undef" THEN "undefined" ELSE "null") \o " (reading '" \o p \o "')")

Nullish(x) == x.t \in {"undef", "null"}

-----------------------------------------------------------------------------
(* Responses of the handler *)

Response(body, status, headers) == [status |-> status, headers |-> headers, body |-> body]
NoResponse == Response("", 0, {})

(* Variant: the message sent as it is, without JSON.stringify. *)
BadRequestResponsePlain == Response("Please provide a search query.", 400, {})

BadRequestResponse ==
    Response(JSONstringify(<< <<"error", Str(<<"Please provide a search query.">>)>> >>), 400, {})

(* Variant: the percent-encoded query is echoed instead of the raw one. *)
NoResultsResponseEncoded(query) ==
    Response(JSONstringify(<< <<"error",
                 Str(<<"No results found for ", "\"">> \o encodeURIComponent(query)
                     \o <<"\"", ".">>)>> >>),
             404, {})

(* Variant: the no-results response carries the Content-Type header too. *)
NoResultsResponseTyped(query) ==
    Response(JSONstringify(<< <<"error",
                 Str(<<"No results found for ", "\"">> \o query \o <<"\"", ".">>)>> >>),
             404, {<<"Content-Type", "application/json">>})

NoResultsResponse(query) ==
    Response(JSONstringify(<< <<"error",
                 Str(<<"No results found for ", "\"">> \o query \o <<"\"", ".">>)>> >>),
             404, {})

(* Variant: the status option is left out, so the Response defaults to 200. *)
FaultResponseDefaultStatus(error) ==
    Response(JSONstringify(<< <<"error",
                 Str(<<"Sorry, an error occurred while fetching the search results.">>)>> >>),
             200, {})

(* Variant: the caught error's message is put into the body. *)
FaultResponseLeaky(error) ==
    Response(JSONstringify(<< <<"error", Str(<<error.message>>)>> >>), 500, {})

FaultResponse(error) ==
    Response(JSONstringify(<< <<"error",
                 Str(<<"Sorry, an error occurred while fetching the search results.">>)>> >>),
             500, {})

NotFoundResponse == Response("Not Found", 404, {})

(* Variant: title ?? "N/A", which keeps an empty string or a 0. *)
SuccessResponseNullish(firstResult) ==
    Response(JSONstringify(<< <<"title", IF Nullish(firstResult.title)
                                         THEN Str(<<"N/A">>) ELSE firstResult.title>>,
                              <<"prompt", firstResult.prompt>>,
                              <<"user", IF firstResult.user.t = "obj"
                                        THEN firstResult.user.displayName ELSE Undef>>,
                              <<"imageUrl", firstResult.url>> >>),
             200, {<<"Content-Type", "application/json">>})

(* Variant: the compiled copy is stale and still has title ?? "N/A". *)
SuccessResponseStaleBuild(firstResult) ==
    IF impl = "js" THEN SuccessResponseNullish(firstResult)
    ELSE Response(JSONstringify(<< <<"title", IF Truthy(firstResult.title)
                                              THEN firstResult.title ELSE Str(<<"N/A">>)>>,
                                   <<"prompt", firstResult.prompt>>,
                                   <<"user", IF firstResult.user.t = "obj"
                                             THEN firstResult.user.displayName ELSE Undef>>,
                                   <<"imageUrl", firstResult.url>> >>),
                  200, {<<"Content-Type", "application/json">>})

(* The result object built from the first element; firstResult.user is an *)
(* object or a primitive here, and a primitive has no displayName.         *)
SuccessResponse(firstResult) ==
    Response(JSONstringify(<< <<"title", IF Truthy(firstResult.title)
                                         THEN firstResult.title ELSE Str(<<"N/A">>)>>,
                              <<"prompt", firstResult.prompt>>,
                              <<"user", IF firstResult.user.t = "obj"
                                        THEN firstResult.user.displayName ELSE Undef>>,
                              <<"imageUrl", firstResult.url>> >>),
             200, {<<"Content-Type", "application/json">>})

Returned(response) == [threw |-> FALSE, error |-> NoError, response |-> response]
Threw(error) == [threw |-> TRUE, error |-> error, response |-> NoResponse]

(* Variants of the try block: the last element taken instead of the      *)
(* first, optional chaining on pageProps, optional chaining on user.     *)
ShapeVariant(query, responseData, last, optionalPageProps, optionalUser) ==
    IF Nullish(responseData) THEN Threw(ReadOfNullish(responseData.t, "pageProps"))
    ELSE IF Nullish(responseData.pageProps) /\ ~optionalPageProps
    THEN Threw(ReadOfNullish(responseData.pageProps.t, "data"))
    ELSE LET data == responseData.pageProps.data IN
         IF ~Nullish(responseData.pageProps) /\ data.t = "arr" /\ Len(data.e) > 0
         THEN LET firstResult == data.e[IF last THEN Len(data.e) ELSE 1] IN
              IF Nullish(firstResult) THEN Threw(ReadOfNullish(firstResult.t, "title"))
              ELSE IF Nullish(firstResult.user) /\ ~optionalUser
              THEN Threw(ReadOfNullish(firstResult.user.t, "displayName"))
              ELSE Returned(SuccessResponse(firstResult))
         ELSE Returned(NoResultsResponse(query))

ShapeResultsLast(query, responseData) == ShapeVariant(query, responseData, TRUE, FALSE, FALSE)
ShapeResultsOptionalPageProps(query, responseData) ==
    ShapeVariant(query, responseData, FALSE, TRUE, FALSE)
ShapeResultsOptionalUser(query, responseData) ==
    ShapeVariant(query, responseData, FALSE, FALSE, TRUE)

(* Variant: every field read from the first element is required, and a  *)
(* missing prompt, url or displayName throws like a missing user.        *)
ShapeResultsStrict(query, responseData) ==
    IF Nullish(responseData) THEN Threw(ReadOfNullish(responseData.t, "pageProps"))
    ELSE IF Nullish(responseData.pageProps)
    THEN Threw(ReadOfNullish(responseData.pageProps.t, "data"))
    ELSE LET data == responseData.pageProps.data IN
         IF data.t = "arr" /\ Len(data.e) > 0
         THEN LET firstResult == data.e[1] IN
              IF Nullish(firstResult) THEN Threw(ReadOfNullish(firstResult.t, "title"))
              ELSE IF Nullish(firstResult.user)
              THEN Threw(ReadOfNullish(firstResult.user.t, "displayName"))
              ELSE IF \/ Nullish(firstResult.prompt)
                      \/ Nullish(firstResult.url)
                      \/ firstResult.user.t # "obj"
                      \/ Nullish(firstResult.user.displayName)
              THEN Threw(Error("TypeError", "missing field"))
              ELSE Returned(SuccessResponse(firstResult))
         ELSE Returned(NoResultsResponse(query))

(* The body of the try block after response.json() has resolved with      *)
(* responseData: navigation, the branch on the result array and shaping.  *)
ShapeResults(query, responseData) ==
    IF Nullish(responseData) THEN Threw(ReadOfNullish(responseData.t, "pageProps"))
    ELSE IF Nullish(responseData.pageProps)
    THEN Threw(ReadOfNullish(responseData.pageProps.t, "data"))
    ELSE LET data == responseData.pageProps.data IN
         IF data.t = "arr" /\ Len(data.e) > 0
         THEN LET firstResult == data.e[1] IN
              IF Nullish(firstResult) THEN Threw(ReadOfNullish(firstResult.t, "title"))
              ELSE IF Nullish(firstResult.user)
              THEN Threw(ReadOfNullish(firstResult.user.t, "displayName"))
              ELSE Returned(SuccessResponse(firstResult))
         ELSE Returned(NoResultsResponse(query))

(* Variant: query === null, which lets the empty string through. *)
MissingQueryNullOnly(q) == q.t = "null"

(* !query: searchParams.get("q") is null or the empty string. *)
MissingQuery(q) == q.t = "null" \/ q.v = <<>>

IsSearchPath(pathname) == pathname = "/search"

(* Variant: the query check made before the routing check. *)
HandlerStartQueryFirst(i, request) ==
    IF MissingQuery(request.q)
    THEN [pc |-> "done", resp |-> BadRequestResponse, outbound |-> <<>>]
    ELSE IF IsSearchPath(request.pathname)
    THEN [pc |-> "fetch", resp |-> NoResponse,
          outbound |-> << [method |-> "GET", url |-> searchUrl(i, request.q.v)] >>]
    ELSE [pc |-> "done", resp |-> NotFoundResponse, outbound |-> <<>>]

(* Variant: the outbound call started before the query check. *)
HandlerStartFetchFirst(i, request) ==
    IF IsSearchPath(request.pathname)
    THEN IF MissingQuery(request.q)
         THEN [pc |-> "done", resp |-> BadRequestResponse,
               outbound |-> << [method |-> "GET", url |-> searchUrl(i, request.q.v)] >>]
         ELSE [pc |-> "fetch", resp |-> NoResponse,
               outbound |-> << [method |-> "GET", url |-> searchUrl(i, request.q.v)] >>]
    ELSE [pc |-> "done", resp |-> NotFoundResponse, outbound |-> <<>>]

(* Variant: a second fetch of the same URL issued next to the first. *)
HandlerStartFetchTwice(i, request) ==
    IF IsSearchPath(request.pathname)
    THEN IF MissingQuery(request.q)
         THEN [pc |-> "done", resp |-> BadRequestResponse, outbound |-> <<>>]
         ELSE [pc |-> "fetch", resp |-> NoResponse,
               outbound |-> << [method |-> "GET", url |-> searchUrl(i, request.q.v)],
                               [method |-> "GET", url |-> searchUrl(i, request.q.v)] >>]
    ELSE [pc |-> "done", resp |-> NotFoundResponse, outbound |-> <<>>]

(* The handler up to its first await: the response it returns at once, or *)
(* the outbound GET it issues.                                             *)
HandlerStart(i, request) ==
    IF IsSearchPath(request.pathname)
    THEN IF MissingQuery(request.q)
         THEN [pc |-> "done", resp |-> BadRequestResponse, outbound |-> <<>>]
         ELSE [pc |-> "fetch", resp |-> NoResponse,
               outbound |-> << [method |-> "GET", url |-> searchUrl(i, request.q.v)] >>]
    ELSE [pc |-> "done", resp |-> NotFoundResponse, outbound |-> <<>>]

(* Variant: the catch block answers without logging. *)
CatchBlockSilent(error) == [log |-> <<>>, resp |-> FaultResponse(error)]

(* Variant: the catch block logs and throws the error again, so that the *)
(* invocation ends without a response.                                    *)
CatchBlockRethrow(error) == [log |-> <<error>>, resp |-> NoResponse]

(* The catch block: logs the error and answers with the generic message. *)
CatchBlock(error) == [log |-> <<error>>, resp |-> FaultResponse(error)]

-----------------------------------------------------------------------------
(* Inputs: requests, and what the upstream may answer *)

Methods == {"GET", "POST"}
Paths == {"/search", "/", "/search/", "/other"}

(* searchParams.get("q"): null when q is absent, else its decoded value. *)
Queries == {Null, Str(<<>>), Str(<<"f", "o", "o">>), Str(<<"a", " ", "b">>),
            Str(<<"\"", "&">>), Str(<<"%", "\\">>)}

Requests == [method : Methods, pathname : Paths, q : Queries]
NoRequest == [method |-> "", pathname |-> "", q |-> Null]

Titles == {Undef, Null, Str(<<>>), Str(<<"T">>), Num(<<"0">>), Num(<<"7">>)}
Prompts == {Undef, Str(<<"P">>)}
UrlValues == {Undef, Str(<<"http://x">>)}

User(t, displayName) == [t |-> t, displayName |-> displayName]
Users == {User("undef", Undef), User("null", Undef), User("prim", Undef),
          User("obj", Undef), User("obj", Str(<<"U">>))}

Element(title, prompt, user, url) ==
    [t |-> "obj", title |-> title, prompt |-> prompt, user |-> user, url |-> url]
NullElement ==
    [t |-> "null", title |-> Undef, prompt |-> Undef, user |-> User("undef", Undef),
     url |-> Undef]

FirstElements ==
    {NullElement} \cup
    {Element(ti, p, u, l) : ti \in Titles, p \in Prompts, u \in Users, l \in UrlValues}

(* The elements after the first are drawn from a few unlike ones. *)
RestElements ==
    {NullElement,
     Element(Str(<<"T2">>), Str(<<"P2">>), User("obj", Str(<<"U2">>)), Str(<<"http://y">>)),
     Element(Undef, Undef, User("undef", Undef), Undef)}

Data(t, e) == [t |-> t, e |-> e]
DataValues ==
    {Data("undef", <<>>), Data("null", <<>>), Data("arr", <<>>)} \cup
    {Data("arr", <<f>> \o r) :
        f \in FirstElements, r \in UNION {[1..k -> RestElements] : k \in 0..(MaxData - 1)}}

PageProps(t, data) == [t |-> t, data |-> data]
PagePropsValues ==
    {PageProps("undef", Data("undef", <<>>)), PageProps("null", Data("undef", <<>>))} \cup
    {PageProps("obj", d) : d \in DataValues}

Root(t, pageProps) == [t |-> t, pageProps |-> pageProps]
NullRoot == Root("null", PageProps("undef", Data("undef", <<>>)))
Roots == {NullRoot} \cup {Root("obj", pp) : pp \in PagePropsValues}

(* What fetch settles with: a rejection, or a response with a status and *)
(* a body that is valid JSON (denoting root) or not.                      *)
UpstreamStatuses == {200, 500}
Reply(kind, error, status, valid, root) ==
    [kind |-> kind, error |-> error, status |-> status, valid |-> valid, root |-> root]
NoReply == Reply("none", NoError, 0, FALSE, NullRoot)

NetworkErrors == {Error("TypeError", "error sending request"),
                  Error("Http", "connection closed before message completed")}
JsonError == Error("SyntaxError", "Unexpected token < in JSON at position 0")

Rejections == {Reply("rejected", e, 0, FALSE, NullRoot) : e \in NetworkErrors}
Resolutions ==
    {Reply("resolved", NoError, st, FALSE, NullRoot) : st \in UpstreamStatuses} \cup
    {Reply("resolved", NoError, st, TRUE, r) : st \in UpstreamStatuses, r \in Roots}

-----------------------------------------------------------------------------
(* The handler, one invocation after the other *)

(* new Server({ handler }): nothing tracked, serve() not yet called. *)
Conns == 1..MaxConns
Reqs == 1..MaxReqs

NoConn == [st |-> "none", open |-> FALSE]
NoExchange == [st |-> "none", conn |-> 0, req |-> NoRequest, reply |-> NoReply,
               resp |-> NoResponse]

(* The error the last failed call of the Server's interface has thrown, *)
(* or its promise was rejected with.                                      *)
Thrown(call, error) == [call |-> call, error |-> error]
NoThrow == Thrown("", "")

ServerNew ==
    /\ thrown = NoThrow
    /\ closed = FALSE
    /\ listeners = {}
    /\ httpConnections = {}
    /\ listenerOpen = TRUE
    /\ servePc = "new"
    /\ acceptBackoffDelay = 0
    /\ cn = [c \in Conns |-> NoConn]
    /\ rq = [r \in Reqs |-> NoExchange]

Init ==
    /\ impl \in Impls
    /\ pc = "idle"
    /\ req = NoRequest
    /\ outbound = <<>>
    /\ reply = NoReply
    /\ resp = NoResponse
    /\ log = <<>>
    /\ handler = "proxy"
    /\ ServerNew

(* The server calls the handler with a request; the handler runs to its  *)
(* first await or to its return.                                          *)
Invoke(request) ==
    /\ pc \in {"idle", "done"}
    /\ LET h == HandlerStart(impl, request) IN
       /\ pc' = h.pc
       /\ resp' = h.resp
       /\ outbound' = h.outbound
    /\ req' = request
    /\ reply' = NoReply
    /\ log' = <<>>
    /\ UNCHANGED <<svars, impl, svars>>

(* Variant: a handler that throws on an upstream status other than 200   *)
(* (a check of response.ok) before it reads the body.                    *)
FetchResolveChecksOk(r) ==
    /\ pc = "fetch"
    /\ reply' = r
    /\ IF r.status = 200
       THEN pc' = "json" /\ UNCHANGED <<resp, log>>
       ELSE LET c == CatchBlock(Error("Error", "upstream status")) IN
            /\ log' = c.log
            /\ resp' = c.resp
            /\ pc' = "done"
    /\ UNCHANGED <<svars, impl, req, outbound>>

(* await fetch(searchUrl) resolves; the handler calls response.json(). *)
FetchResolve(r) ==
    /\ pc = "fetch"
    /\ reply' = r
    /\ pc' = "json"
    /\ UNCHANGED <<svars, impl, req, outbound, resp, log>>

(* await fetch(searchUrl) rejects: the catch block runs. *)
FetchReject(r) ==
    /\ pc = "fetch"
    /\ reply' = r
    /\ LET c == CatchBlock(r.error) IN
       /\ log' = c.log
       /\ resp' = c.resp
    /\ pc' = "done"
    /\ UNCHANGED <<svars, impl, req, outbound>>

(* await response.json() rejects: the body is no JSON. *)
JsonReject ==
    /\ pc = "json"
    /\ ~reply.valid
    /\ LET c == CatchBlock(JsonError) IN
       /\ log' = c.log
       /\ resp' = c.resp
    /\ pc' = "done"
    /\ UNCHANGED <<svars, impl, req, outbound, reply>>

(* await response.json() resolves: the rest of the try block runs, and  *)
(* the catch block when it throws.                                       *)
JsonResolve ==
    /\ pc = "json"
    /\ reply.valid
    /\ LET s == ShapeResults(req.q.v, reply.root) IN
       IF s.threw
       THEN LET c == CatchBlock(s.error) IN
            /\ log' = c.log
            /\ resp' = c.resp
       ELSE /\ log' = log
            /\ resp' = s.response
    /\ pc' = "done"
    /\ UNCHANGED <<svars, impl, req, outbound, reply>>

Next ==
    \/ \E request \in Requests : Invoke(request)
    \/ \E r \in Resolutions : FetchResolve(r)
    \/ \E r \in Rejections : FetchReject(r)
    \/ JsonReject
    \/ JsonResolve

Spec == Init /\ [][Next]_vars

(* The same handler when every outbound call settles and every body read *)
(* ends: the event loop then runs the handler's continuation.  Progress   *)
(* depends on the path the handler takes, not on the values it carries,   *)
(* so the inputs are one of each kind: a routing miss, a missing query,   *)
(* two queries, and one upstream body for each way the try block goes.    *)
LiveRequests ==
    {r \in Requests : /\ r.method = "GET"
                      /\ r.pathname \in {"/search", "/other"}
                      /\ r.q \in {Null, Str(<<"f", "o", "o">>), Str(<<"a", " ", "b">>)}}

LiveRoots ==
    {NullRoot,
     Root("obj", PageProps("undef", Data("undef", <<>>))),
     Root("obj", PageProps("obj", Data("undef", <<>>))),
     Root("obj", PageProps("obj", Data("arr", <<>>)))} \cup
    {Root("obj", PageProps("obj", Data("arr", <<e>>))) : e \in RestElements}

LiveResolutions ==
    {Reply("resolved", NoError, st, FALSE, NullRoot) : st \in UpstreamStatuses} \cup
    {Reply("resolved", NoError, st, TRUE, r) : st \in UpstreamStatuses, r \in LiveRoots}

FetchSettle ==
    \/ \E r \in LiveResolutions : FetchResolve(r)
    \/ \E r \in Rejections : FetchReject(r)

JsonSettle == JsonReject \/ JsonResolve

LiveNext ==
    \/ \E request \in LiveRequests : Invoke(request)
    \/ \E r \in LiveResolutions : FetchResolve(r)
    \/ \E r \in Rejections : FetchReject(r)
    \/ JsonReject
    \/ JsonResolve

LiveSpec == Init /\ [][LiveNext]_vars /\ WF_vars(FetchSettle) /\ WF_vars(JsonSettle)

-----------------------------------------------------------------------------
(* The Server: serve(listener), the accept loop, the serving loop of each *)
(* connection and the answer to each request                              *)

INITIAL_ACCEPT_BACKOFF_DELAY == 5
MAX_ACCEPT_BACKOFF_DELAY == 1000

(* The handler given to the Server: the search proxy, or one that throws. *)
Handlers == {"proxy", "throwing"}

(* The requests and the upstream outcomes met while serving. *)
ServedRequests ==
    {r \in Requests : /\ r.method = "GET"
                      /\ \/ r.pathname = "/search" /\ r.q = Str(<<"f", "o", "o">>)
                         \/ r.pathname = "/other" /\ r.q = Null}

ServedRoots ==
    {Root("obj", PageProps("obj", Data("arr",
          << Element(Str(<<"T2">>), Str(<<"P2">>), User("obj", Str(<<"U2">>)),
                     Str(<<"http://y">>)) >>)))}

ServedResolutions == {Reply("resolved", NoError, 200, TRUE, r) : r \in ServedRoots}
ServedRejections == {Reply("rejected", Error("TypeError", "error sending request"), 0,
                           FALSE, NullRoot)}

AcceptErrors == {"BadResource", "InvalidData", "UnexpectedEof", "ConnectionReset",
                 "NotConnected", "Other"}
(* Variant: a reset connection counts as fatal. *)
TransientButReset(error) ==
    error \in {"BadResource", "InvalidData", "UnexpectedEof", "NotConnected"}

Transient(error) ==
    error \in {"BadResource", "InvalidData", "UnexpectedEof", "ConnectionReset",
               "NotConnected"}

(* Variant: the delay doubles without a cap. *)
NextBackoffUncapped(delay) ==
    IF delay = 0 THEN INITIAL_ACCEPT_BACKOFF_DELAY ELSE delay * 2

(* The delay after one more transient accept error; 0 is undefined. *)
NextBackoff(delay) ==
    LET raised == IF delay = 0 THEN INITIAL_ACCEPT_BACKOFF_DELAY ELSE delay * 2
    IN IF raised >= MAX_ACCEPT_BACKOFF_DELAY THEN MAX_ACCEPT_BACKOFF_DELAY ELSE raised

(* #closeHttpConn: untracks the connection and closes it, a second time  *)
(* without effect.                                                        *)
closeHttpConn(tracked, conns, c) ==
    [httpConnections |-> tracked \ {c}, cn |-> [conns EXCEPT ![c].open = FALSE]]

(* Variant: a catch block that closes every tracked connection. *)
RespondCatchAll(tracked, conns, c) ==
    [httpConnections |-> {},
     cn |-> [d \in Conns |-> IF d \in tracked \cup {c}
                              THEN [conns[d] EXCEPT !.open = FALSE] ELSE conns[d]]]

(* The catch block of #respond closes the connection of the request. *)
RespondCatch(tracked, conns, c) == closeHttpConn(tracked, conns, c)

(* Variant: a serve() without its finally block. *)
ServeSettleLeaves(outcome) ==
    /\ servePc' = outcome
    /\ UNCHANGED <<listeners, listenerOpen>>

(* serve()'s finally block: the listener untracked and closed. *)
ServeSettle(outcome) ==
    /\ servePc' = outcome
    /\ listeners' = listeners \ {"listener"}
    /\ listenerOpen' = FALSE

(* Variant: an accept loop that does not look at the closed flag. *)
AcceptLoopForever(isClosed) ==
    /\ servePc' = "accept"
    /\ UNCHANGED <<listeners, listenerOpen>>

(* The top of the accept loop: it goes on while the server is open. *)
AcceptLoop(isClosed) ==
    IF isClosed
    THEN ServeSettle("resolved")
    ELSE /\ servePc' = "accept"
         /\ UNCHANGED <<listeners, listenerOpen>>

(* serve(listener) on a server that is not closed: the listener tracked, *)
(* the accept loop entered.                                               *)
Serve ==
    /\ servePc = "new"
    /\ ~closed
    /\ listeners' = listeners \cup {"listener"}
    /\ servePc' = "accept"
    /\ UNCHANGED <<impl, pc, req, outbound, reply, resp, log>>
    /\ UNCHANGED <<handler, closed, httpConnections, listenerOpen, acceptBackoffDelay, cn, rq, thrown>>

(* Variant: a serving loop that does not look at the closed flag when it *)
(* starts.                                                                *)
AcceptConnUnchecked(c) ==
    /\ servePc = "accept"
    /\ cn[c].st = "none"
    /\ \A d \in Conns : d < c => cn[d].st # "none"
    /\ acceptBackoffDelay' = 0
    /\ httpConnections' = httpConnections \cup {c}
    /\ cn' = [cn EXCEPT ![c] = [st |-> "serving", open |-> TRUE]]
    /\ AcceptLoop(closed)
    /\ UNCHANGED <<impl, pc, req, outbound, reply, resp, log>>
    /\ UNCHANGED <<handler, closed, rq, thrown>>

(* listener.accept() resolves with connection c and Deno.serveHttp takes *)
(* it: the connection is tracked and its serving loop started, which     *)
(* closes it at once when the server was closed meanwhile.                *)
AcceptConn(c) ==
    /\ servePc = "accept"
    /\ cn[c].st = "none"
    /\ \A d \in Conns : d < c => cn[d].st # "none"
    /\ acceptBackoffDelay' = 0
    /\ IF closed
       THEN LET x == closeHttpConn(httpConnections \cup {c},
                                   [cn EXCEPT ![c] = [st |-> "ended", open |-> TRUE]], c)
            IN /\ httpConnections' = x.httpConnections
               /\ cn' = x.cn
       ELSE /\ httpConnections' = httpConnections \cup {c}
            /\ cn' = [cn EXCEPT ![c] = [st |-> "serving", open |-> TRUE]]
    /\ AcceptLoop(closed)
    /\ UNCHANGED <<impl, pc, req, outbound, reply, resp, log>>
    /\ UNCHANGED <<handler, closed, rq, thrown>>

(* listener.accept() resolves but Deno.serveHttp throws: the connection  *)
(* is skipped.                                                            *)
UpgradeFail(c) ==
    /\ servePc = "accept"
    /\ cn[c].st = "none"
    /\ \A d \in Conns : d < c => cn[d].st # "none"
    /\ acceptBackoffDelay' = 0
    /\ cn' = [cn EXCEPT ![c] = [st |-> "skipped", open |-> FALSE]]
    /\ AcceptLoop(closed)
    /\ UNCHANGED <<impl, pc, req, outbound, reply, resp, log>>
    /\ UNCHANGED <<handler, closed, httpConnections, rq, thrown>>

(* listener.accept() rejects: a transient error starts a backoff delay,  *)
(* any other error ends serve() with that error.  On a closed listener    *)
(* accept() rejects with BadResource.                                     *)
AcceptFail(error) ==
    /\ servePc = "accept"
    /\ listenerOpen \/ error = "BadResource"
    /\ IF Transient(error)
       THEN /\ acceptBackoffDelay' = NextBackoff(acceptBackoffDelay)
            /\ servePc' = "delay"
            /\ UNCHANGED <<listeners, listenerOpen>>
            /\ UNCHANGED thrown
       ELSE /\ ServeSettle("rejected")
            /\ thrown' = Thrown("serve", error)
            /\ UNCHANGED acceptBackoffDelay
    /\ UNCHANGED <<impl, pc, req, outbound, reply, resp, log>>
    /\ UNCHANGED <<handler, closed, httpConnections, cn, rq>>

(* The backoff delay is over: the loop continues. *)
DelayOver ==
    /\ servePc = "delay"
    /\ AcceptLoop(closed)
    /\ UNCHANGED <<impl, pc, req, outbound, reply, resp, log>>
    /\ UNCHANGED <<handler, closed, httpConnections, acceptBackoffDelay, cn, rq, thrown>>

(* A request whose #respond is over: the response sent, or the          *)
(* connection closed; the request and the response are no longer held.   *)
Over(outcome, c) == [NoExchange EXCEPT !.st = outcome, !.conn = c]

(* Variant: a handler that remembers the response of a request in       *)
(* flight and gives it to the next request.                               *)
HandlerCalledRemembering(c, request) ==
    LET h == HandlerStart(impl, request)
        held == {q \in Reqs : rq[q].st = "responding"}
    IN [st |-> IF h.pc = "done" THEN "responding" ELSE "fetch",
        conn |-> c, req |-> request, reply |-> NoReply,
        resp |-> IF held # {} /\ h.pc = "done"
                 THEN rq[CHOOSE q \in held : TRUE].resp ELSE h.resp]

(* The state of request r once the handler has been called with it and   *)
(* has run to its first await or to its return.                           *)
HandlerCalled(c, request) ==
    LET h == HandlerStart(impl, request) IN
    [st |-> IF h.pc = "done" THEN "responding" ELSE "fetch",
     conn |-> c, req |-> request, reply |-> NoReply, resp |-> h.resp]

(* Variant: a serving loop that awaits #respond before it asks for the  *)
(* next request.                                                          *)
LoopAwaitsRespond(c) ==
    /\ cn[c].st = "serving" /\ cn[c].open
    /\ \A r \in Reqs : rq[r].conn = c => rq[r].st \notin {"fetch", "json", "responding"}

(* May the serving loop of c take the next request?  It does not await   *)
(* #respond, so the requests in flight do not matter.                     *)
LoopAwaitsRequest(c) == cn[c].st = "serving" /\ cn[c].open

(* httpConn.nextRequest() yields request r on connection c: #respond is  *)
(* called and calls the handler; a handler that throws has the           *)
(* connection closed.                                                     *)
NextRequest(c, r, request) ==
    /\ LoopAwaitsRequest(c)
    /\ rq[r].st = "none"
    /\ \A q \in Reqs : q < r => rq[q].st # "none"
    /\ IF handler = "throwing"
       THEN LET x == RespondCatch(httpConnections, cn, c) IN
            /\ rq' = [rq EXCEPT ![r] = Over("failed", c)]
            /\ httpConnections' = x.httpConnections
            /\ cn' = x.cn
       ELSE /\ rq' = [rq EXCEPT ![r] = HandlerCalled(c, request)]
            /\ UNCHANGED <<httpConnections, cn>>
    /\ UNCHANGED <<impl, pc, req, outbound, reply, resp, log>>
    /\ UNCHANGED <<handler, closed, listeners, listenerOpen, servePc, acceptBackoffDelay, thrown>>

(* httpConn.nextRequest() yields null or throws (the client has left, or *)
(* the connection was closed): the loop ends and closes the connection.  *)
ConnEnd(c) ==
    /\ cn[c].st = "serving"
    /\ LET x == closeHttpConn(httpConnections, [cn EXCEPT ![c].st = "ended"], c) IN
       /\ httpConnections' = x.httpConnections
       /\ cn' = x.cn
    /\ UNCHANGED <<impl, pc, req, outbound, reply, resp, log>>
    /\ UNCHANGED <<handler, closed, listeners, listenerOpen, servePc, acceptBackoffDelay, rq, thrown>>

(* The outbound call of request r resolves: the handler reads the body. *)
ServedFetchResolve(r, rep) ==
    /\ rq[r].st = "fetch"
    /\ rq' = [rq EXCEPT ![r].st = "json", ![r].reply = rep]
    /\ UNCHANGED <<impl, pc, req, outbound, reply, resp, log>>
    /\ UNCHANGED <<handler, closed, listeners, httpConnections, listenerOpen, servePc,
                   acceptBackoffDelay, cn, thrown>>

(* The outbound call of request r rejects: the handler returns from its  *)
(* catch block and #respond calls respondWith.                            *)
ServedFetchReject(r, rep) ==
    /\ rq[r].st = "fetch"
    /\ rq' = [rq EXCEPT ![r].st = "responding", ![r].reply = rep,
                        ![r].resp = CatchBlock(rep.error).resp]
    /\ UNCHANGED <<impl, pc, req, outbound, reply, resp, log>>
    /\ UNCHANGED <<handler, closed, listeners, httpConnections, listenerOpen, servePc,
                   acceptBackoffDelay, cn, thrown>>

(* response.json() of request r settles: the handler returns and         *)
(* #respond calls respondWith.                                            *)
ServedJsonSettle(r) ==
    /\ rq[r].st = "json"
    /\ LET s == IF rq[r].reply.valid
                THEN ShapeResults(rq[r].req.q.v, rq[r].reply.root)
                ELSE Threw(JsonError)
       IN rq' = [rq EXCEPT ![r].st = "responding",
                           ![r].resp = IF s.threw THEN CatchBlock(s.error).resp
                                       ELSE s.response]
    /\ UNCHANGED <<impl, pc, req, outbound, reply, resp, log>>
    /\ UNCHANGED <<handler, closed, listeners, httpConnections, listenerOpen, servePc,
                   acceptBackoffDelay, cn, thrown>>

(* Variant: responses are sent in the order in which the requests came. *)
RespondOkInOrder(r) ==
    /\ rq[r].st = "responding"
    /\ cn[rq[r].conn].open
    /\ \A q \in Reqs : q < r => rq[q].st \in {"sent", "failed"}
    /\ rq' = [rq EXCEPT ![r] = Over("sent", rq[r].conn)]
    /\ UNCHANGED <<impl, pc, req, outbound, reply, resp, log>>
    /\ UNCHANGED <<handler, closed, listeners, httpConnections, listenerOpen, servePc,
                   acceptBackoffDelay, cn, thrown>>

(* requestEvent.respondWith(response) resolves: the response is sent. *)
RespondOk(r) ==
    /\ rq[r].st = "responding"
    /\ cn[rq[r].conn].open
    /\ rq' = [rq EXCEPT ![r] = Over("sent", rq[r].conn)]
    /\ UNCHANGED <<impl, pc, req, outbound, reply, resp, log>>
    /\ UNCHANGED <<handler, closed, listeners, httpConnections, listenerOpen, servePc,
                   acceptBackoffDelay, cn, thrown>>

(* requestEvent.respondWith(response) rejects (the client has left, or   *)
(* the connection is closed): the connection is closed.                   *)
RespondFail(r) ==
    /\ rq[r].st = "responding"
    /\ LET x == RespondCatch(httpConnections, cn, rq[r].conn) IN
       /\ httpConnections' = x.httpConnections
       /\ cn' = x.cn
    /\ rq' = [rq EXCEPT ![r] = Over("failed", rq[r].conn)]
    /\ UNCHANGED <<impl, pc, req, outbound, reply, resp, log>>
    /\ UNCHANGED <<handler, closed, listeners, listenerOpen, servePc, acceptBackoffDelay, thrown>>

(* Variant: a close() that closes the listeners and leaves the HTTP     *)
(* connections.                                                           *)
CloseListenersOnly ==
    /\ ~closed
    /\ closed' = TRUE
    /\ listenerOpen' = IF "listener" \in listeners THEN FALSE ELSE listenerOpen
    /\ listeners' = {}
    /\ UNCHANGED <<impl, pc, req, outbound, reply, resp, log>>
    /\ UNCHANGED <<handler, servePc, acceptBackoffDelay, rq, thrown, cn, httpConnections>>

(* close() on a server that is not closed. *)
Close ==
    /\ ~closed
    /\ closed' = TRUE
    /\ listenerOpen' = IF "listener" \in listeners THEN FALSE ELSE listenerOpen
    /\ listeners' = {}
    /\ cn' = [c \in Conns |-> IF c \in httpConnections
                               THEN [cn[c] EXCEPT !.open = FALSE] ELSE cn[c]]
    /\ httpConnections' = {}
    /\ UNCHANGED <<impl, pc, req, outbound, reply, resp, log>>
    /\ UNCHANGED <<handler, servePc, acceptBackoffDelay, rq, thrown>>

ERROR_SERVER_CLOSED == "Server closed"

(* The calls of the Server's interface that begin with the check of the  *)
(* closed flag.                                                           *)
CheckedCalls == {"close", "serve", "listenAndServe", "listenAndServeTls"}

(* Variant: serve() tracks the listener it was given before the check.   *)
ServerClosedErrorTracking(call) ==
    /\ closed
    /\ thrown' = Thrown(call, ERROR_SERVER_CLOSED)
    /\ listeners' = IF call = "serve" THEN listeners \cup {"listener"} ELSE listeners
    /\ UNCHANGED <<impl, pc, req, outbound, reply, resp, log>>
    /\ UNCHANGED <<handler, closed, httpConnections, listenerOpen, servePc,
                   acceptBackoffDelay, cn, rq>>

(* close(), serve(listener), listenAndServe() or listenAndServeTls() on  *)
(* a closed server: the call throws before it does anything.              *)
ServerClosedError(call) ==
    /\ closed
    /\ thrown' = Thrown(call, ERROR_SERVER_CLOSED)
    /\ UNCHANGED <<impl, pc, req, outbound, reply, resp, log>>
    /\ UNCHANGED <<handler, closed, listeners, httpConnections, listenerOpen, servePc,
                   acceptBackoffDelay, cn, rq>>

(* The accept errors in a row are bounded: the delay tells their number. *)
RECURSIVE Backoffs(_)
Backoffs(n) == IF n = 0 THEN {0} ELSE LET b == Backoffs(n - 1) IN b \cup {NextBackoff(d) : d \in b}

MoreAcceptErrors == acceptBackoffDelay \in Backoffs(MaxAcceptErrors - 1)

ServerInit ==
    /\ impl = "ts"
    /\ pc = "idle"
    /\ req = NoRequest
    /\ outbound = <<>>
    /\ reply = NoReply
    /\ resp = NoResponse
    /\ log = <<>>
    /\ handler \in Handlers
    /\ ServerNew

(* Serving on a listener whose accept() never rejects. *)
ServerNext ==
    \/ Serve
    \/ \E c \in Conns : AcceptConn(c)
    \/ \E c \in Conns : UpgradeFail(c)
    \/ \E c \in Conns, r \in Reqs, request \in ServedRequests : NextRequest(c, r, request)
    \/ \E c \in Conns : ConnEnd(c)
    \/ \E r \in Reqs, rep \in ServedResolutions : ServedFetchResolve(r, rep)
    \/ \E r \in Reqs, rep \in ServedRejections : ServedFetchReject(r, rep)
    \/ \E r \in Reqs : ServedJsonSettle(r)
    \/ \E r \in Reqs : RespondOk(r)
    \/ \E r \in Reqs : RespondFail(r)
    \/ Close

ServerSpec == ServerInit /\ [][ServerNext]_vars

(* Serving on a listener whose accept() may reject. *)
AcceptNext ==
    \/ ServerNext
    \/ \E e \in AcceptErrors : MoreAcceptErrors /\ AcceptFail(e)
    \/ DelayOver

AcceptSpec == ServerInit /\ [][AcceptNext]_vars

(* The life of a Server that gets no request: the accept loop with any   *)
(* number of accept errors in a row, connections that come and go,       *)
(* close(), and the calls made after it.                                  *)
LifecycleInit == ServerInit /\ handler = "proxy"

AcceptSettles ==
    \/ \E c \in Conns : AcceptConn(c)
    \/ \E c \in Conns : UpgradeFail(c)
    \/ \E e \in AcceptErrors : AcceptFail(e)

LifecycleNext ==
    \/ Serve
    \/ AcceptSettles
    \/ DelayOver
    \/ \E c \in Conns : ConnEnd(c)
    \/ Close
    \/ \E call \in CheckedCalls : ServerClosedError(call)

LifecycleSpec == LifecycleInit /\ [][LifecycleNext]_vars

(* The accept() pending on a closed listener settles, and the timer of   *)
(* the backoff delay fires.                                               *)
LifecycleLiveSpec ==
    /\ LifecycleInit
    /\ [][LifecycleNext]_vars
    /\ WF_vars(~listenerOpen /\ AcceptSettles)
    /\ WF_vars(DelayOver)

(* Serving clients that stay connected, on a server that is not closed.  *)
(* The event loop runs every continuation that is ready: the handler's   *)
(* after its body is read, #respond's after the handler has returned,    *)
(* the serving loop's after a request has come, the accept loop's after  *)
(* a connection has come.  Nothing makes an outbound call settle; the    *)
(* calls that settle resolve.                                             *)
RequestTaken(r) == \E c \in Conns, request \in ServedRequests : NextRequest(c, r, request)
ConnTaken(c) == AcceptConn(c) \/ UpgradeFail(c)

ServerLiveNext ==
    \/ Serve
    \/ \E c \in Conns : ConnTaken(c)
    \/ \E r \in Reqs : RequestTaken(r)
    \/ \E r \in Reqs, rep \in ServedResolutions : ServedFetchResolve(r, rep)
    \/ \E r \in Reqs : ServedJsonSettle(r)
    \/ \E r \in Reqs : RespondOk(r)

ServerLiveInit == ServerInit /\ handler = "proxy"

ServerLiveSpec ==
    /\ ServerLiveInit
    /\ [][ServerLiveNext]_vars
    /\ WF_vars(Serve)
    /\ \A c \in Conns : WF_vars(ConnTaken(c))
    /\ \A r \in Reqs : WF_vars(RequestTaken(r))
    /\ \A r \in Reqs : WF_vars(ServedJsonSettle(r))
    /\ \A r \in Reqs : WF_vars(RespondOk(r))

-----------------------------------------------------------------------------
(* Vocabulary of the properties *)

Done == pc = "done"
SearchWithQuery == req.pathname = "/search" /\ req.q.t = "str" /\ req.q.v # <<>>
ParsedBody == reply.kind = "resolved" /\ reply.valid
HasPageProps == ParsedBody /\ reply.root.t = "obj" /\ reply.root.pageProps.t = "obj"
HasResults ==
    /\ HasPageProps
    /\ reply.root.pageProps.data.t = "arr"
    /\ Len(reply.root.pageProps.data.e) > 0
FirstOfData == reply.root.pageProps.data.e[1]

JsonHeaders == {<<"Content-Type", "application/json">>}
GenericErrorBody == "{\"error\":\"Sorry, an error occurred while fetching the search results.\"}"
MissingQueryBody == "{\"error\":\"Please provide a search query.\"}"

StartsWith(s, prefix) == Len(s) >= Len(prefix) /\ SubSeq(s, 1, Len(prefix)) = prefix

Falsy(x) ==
    \/ x.t \in {"undef", "null"}
    \/ x.t = "str" /\ x.v = <<>>
    \/ x.t = "num" /\ x.v = <<"0">>

RECURSIVE CommaJoin(_)
CommaJoin(s) ==
    IF s = <<>> THEN ""
    ELSE IF Len(s) = 1 THEN s[1]
    ELSE s[1] \o "," \o CommaJoin(Tail(s))

Present(m) == m[2].t # "undef"
Member(m) == "\"" \o m[1] \o "\":" \o StringifyValue(m[2])

(* The JSON text of {title, prompt, user, imageUrl} read off element e. *)
ShapedBody(e) ==
    LET all == << <<"title", IF Falsy(e.title) THEN Str(<<"N/A">>) ELSE e.title>>,
                  <<"prompt", e.prompt>>,
                  <<"user", e.user.displayName>>,
                  <<"imageUrl", e.url>> >>
        kept == SelectSeq(all, Present)
    IN "{" \o CommaJoin([k \in 1..Len(kept) |-> Member(kept[k])]) \o "}"

(* The no-results body for each query of Queries, written out. *)
NoResultsBody(q) ==
    IF q = <<"f", "o", "o">> THEN "{\"error\":\"No results found for \\\"foo\\\".\"}"
    ELSE IF q = <<"a", " ", "b">> THEN "{\"error\":\"No results found for \\\"a b\\\".\"}"
    ELSE IF q = <<"\"", "&">> THEN "{\"error\":\"No results found for \\\"\\\"&\\\".\"}"
    ELSE IF q = <<"%", "\\">> THEN "{\"error\":\"No results found for \\\"%\\\\\\\".\"}"
    ELSE "?"

-----------------------------------------------------------------------------
(* C1: a request whose path is not exactly /search is answered at once    *)
(* with status 404 and the plain-text body "Not Found", whatever its      *)
(* method and its q; it never gets 400.                                   *)
C1_RoutingMiss ==
    (pc # "idle" /\ req.pathname # "/search") =>
        /\ Done
        /\ resp.status = 404
        /\ resp.body = "Not Found"
        /\ resp.headers = {}

C1_Witness ==
    /\ Done
    /\ req.pathname = "/search/"
    /\ req.method = "POST"
    /\ req.q = Null
    /\ resp.status = 404
    /\ resp.body = "Not Found"

(* C2: a request to /search whose q is absent or empty is answered with   *)
(* status 400 and the body {"error":"Please provide a search query."}.    *)
C2_MissingQuery ==
    (pc # "idle" /\ req.pathname = "/search" /\ (req.q = Null \/ req.q = Str(<<>>))) =>
        /\ Done
        /\ resp.status = 400
        /\ resp.body = MissingQueryBody

C2_Witness ==
    /\ Done
    /\ req.pathname = "/search"
    /\ req.q = Str(<<>>)
    /\ resp.status = 400
    /\ resp.body = MissingQueryBody

(* C3: an invocation that ends in the 400 missing-query response or in    *)
(* the 404 "Not Found" response has issued no outbound request.           *)
C3_NoOutboundCall ==
    (Done /\ (resp.status = 400 \/ (resp.status = 404 /\ resp.body = "Not Found"))) =>
        Len(outbound) = 0

C3_Witness ==
    /\ Done
    /\ req.pathname = "/search"
    /\ req.q = Null
    /\ resp.status = 400
    /\ outbound = <<>>

(* C4 as stated: with a non-empty q and at least one element in           *)
(* pageProps.data the response is 200 with the shaped first element.      *)
C4_Original ==
    (Done /\ SearchWithQuery /\ HasResults) =>
        /\ resp.status = 200
        /\ resp.headers = JsonHeaders
        /\ resp.body = ShapedBody(FirstOfData)

(* C4: with a non-empty q, when pageProps.data has at least one element   *)
(* and the first element is an object whose user is neither absent nor    *)
(* null, the response is 200 with Content-Type: application/json and the  *)
(* JSON text of {title, prompt, user, imageUrl} read off the first        *)
(* element alone (absent members left out), whatever the later elements.  *)
C4_Success ==
    (Done /\ SearchWithQuery /\ HasResults
          /\ FirstOfData.t = "obj" /\ FirstOfData.user.t \notin {"undef", "null"}) =>
        /\ resp.status = 200
        /\ resp.headers = JsonHeaders
        /\ resp.body = ShapedBody(FirstOfData)

C4_Witness ==
    /\ Done
    /\ req.q = Str(<<"f", "o", "o">>)
    /\ HasResults
    /\ Len(reply.root.pageProps.data.e) = 2
    /\ FirstOfData = Element(Str(<<"T">>), Str(<<"P">>), User("obj", Str(<<"U">>)),
                             Str(<<"http://x">>))
    /\ reply.root.pageProps.data.e[2].t = "obj"
    /\ resp.status = 200
    /\ resp.headers = JsonHeaders
    /\ resp.body = "{\"title\":\"T\",\"prompt\":\"P\",\"user\":\"U\",\"imageUrl\":\"http://x\"}"

(* C5: in the success response title is the first element's title when   *)
(* that is truthy, and "N/A" when it is missing, null, empty or 0.        *)
C5_TitleDefault ==
    (Done /\ resp.status = 200) =>
        /\ HasResults
        /\ LET title == FirstOfData.title
               shown == IF Falsy(title) THEN "\"N/A\"" ELSE StringifyValue(title)
           IN \/ StartsWith(resp.body, "{\"title\":" \o shown \o ",")
              \/ resp.body = "{\"title\":" \o shown \o "}"

C5_Witness ==
    /\ Done
    /\ resp.status = 200
    /\ HasResults
    /\ FirstOfData.title = Str(<<>>)
    /\ StartsWith(resp.body, "{\"title\":\"N/A\"")

(* C6: with a non-empty q, when the upstream JSON has pageProps but its   *)
(* data is absent or has no elements, the response is 404 with the body   *)
(* {"error":"No results found for \"<q>\"."}, q being the raw query.      *)
C6_NoResults ==
    (Done /\ SearchWithQuery /\ HasPageProps /\ ~HasResults) =>
        /\ resp.status = 404
        /\ resp.body = NoResultsBody(req.q.v)

C6_Witness ==
    /\ Done
    /\ req.q = Str(<<"a", " ", "b">>)
    /\ HasPageProps
    /\ reply.root.pageProps.data = Data("arr", <<>>)
    /\ resp.status = 404
    /\ resp.body = "{\"error\":\"No results found for \\\"a b\\\".\"}"

(* C7 as stated: whenever the path to the result array is absent at any   *)
(* level (no pageProps, or pageProps without data), /search?q=foo gets    *)
(* 404 with {"error":"No results found for \"foo\"."}.                    *)
C7_Original ==
    (Done /\ SearchWithQuery /\ req.q = Str(<<"f", "o", "o">>) /\ ParsedBody
          /\ reply.root.t = "obj"
          /\ (reply.root.pageProps.t = "undef" \/ reply.root.pageProps.data.t = "undef")) =>
        /\ resp.status = 404
        /\ resp.body = "{\"error\":\"No results found for \\\"foo\\\".\"}"

(* C7: for /search?q=foo, when pageProps is present without data the      *)
(* response is 404 with {"error":"No results found for \"foo\"."}; when   *)
(* the pageProps envelope itself is missing the read of data throws and   *)
(* the response is 500 with the generic error body.                       *)
C7_AbsentPath ==
    (Done /\ SearchWithQuery /\ req.q = Str(<<"f", "o", "o">>) /\ ParsedBody
          /\ reply.root.t = "obj") =>
        /\ (reply.root.pageProps.t = "obj" /\ reply.root.pageProps.data.t = "undef") =>
              /\ resp.status = 404
              /\ resp.body = "{\"error\":\"No results found for \\\"foo\\\".\"}"
        /\ reply.root.pageProps.t = "undef" =>
              /\ resp.status = 500
              /\ resp.body = GenericErrorBody

C7_Witness ==
    /\ Done
    /\ req.q = Str(<<"f", "o", "o">>)
    /\ ParsedBody
    /\ reply.root = Root("obj", PageProps("undef", Data("undef", <<>>)))
    /\ resp.status = 500
    /\ log = <<Error("TypeError", "Cannot read properties of undefined (reading 'data')")>>

(* C8: with a non-empty q, when the outbound call rejects or the upstream *)
(* body is no JSON, the response is 500 with the generic error body.       *)
C8_UpstreamFault ==
    (Done /\ SearchWithQuery
          /\ (reply.kind = "rejected" \/ (reply.kind = "resolved" /\ ~reply.valid))) =>
        /\ resp.status = 500
        /\ resp.body = GenericErrorBody

C8_WitnessRejected ==
    /\ Done
    /\ SearchWithQuery
    /\ reply.kind = "rejected"
    /\ resp.status = 500
    /\ Len(outbound) = 1

(* C9: with a non-empty q, when the first element of the result array     *)
(* has no user object, the response is 500 with the generic error body,   *)
(* neither 200 nor 404.                                                    *)
C9_MissingUser ==
    (Done /\ SearchWithQuery /\ HasResults
          /\ FirstOfData.t = "obj" /\ FirstOfData.user.t = "undef") =>
        /\ resp.status = 500
        /\ resp.body = GenericErrorBody
        /\ resp.headers = {}

C9_Witness ==
    /\ Done
    /\ SearchWithQuery
    /\ HasResults
    /\ FirstOfData = Element(Str(<<"T">>), Str(<<"P">>), User("undef", Undef),
                             Str(<<"http://x">>))
    /\ resp.status = 500
    /\ log = <<Error("TypeError",
                     "Cannot read properties of undefined (reading 'displayName')")>>

(* C10: every invocation that goes through the catch block returns the    *)
(* same response, status 500 with the generic error body and no header,   *)
(* whatever the error, the query and the upstream content.                *)
C10_UniformFault ==
    (Done /\ log # <<>>) =>
        resp = [status |-> 500, headers |-> {}, body |-> GenericErrorBody]

C10_Witness ==
    /\ Done
    /\ req.q = Str(<<"\"", "&">>)
    /\ reply.kind = "resolved"
    /\ reply.status = 500
    /\ ~reply.valid
    /\ log = <<JsonError>>
    /\ resp.body = GenericErrorBody

(* C11 as stated: every response the handler returns has a JSON body that *)
(* is one of the three variants (success, not-found, client/server error) *)
(* with the matching status.                                               *)
C11_Original ==
    Done =>
        \/ resp.status = 200 /\ HasResults /\ resp.body = ShapedBody(FirstOfData)
        \/ resp.status = 404 /\ SearchWithQuery /\ resp.body = NoResultsBody(req.q.v)
        \/ resp.status = 400 /\ resp.body = MissingQueryBody
        \/ resp.status = 500 /\ resp.body = GenericErrorBody

(* C11: every response to a request for /search has a JSON body that is   *)
(* one of the three variants with the matching status: the success object *)
(* with 200, the no-results error with 404, an error message with 400 or  *)
(* 500; the response to any other path is the plain-text 404 "Not Found", *)
(* which is no JSON.                                                       *)
C11_Variants ==
    Done =>
        IF req.pathname = "/search"
        THEN \/ resp.status = 200 /\ HasResults /\ resp.body = ShapedBody(FirstOfData)
             \/ resp.status = 404 /\ SearchWithQuery /\ resp.body = NoResultsBody(req.q.v)
             \/ resp.status = 400 /\ resp.body = MissingQueryBody
             \/ resp.status = 500 /\ resp.body = GenericErrorBody
        ELSE resp.status = 404 /\ resp.body = "Not Found"

C11_Witness ==
    /\ Done
    /\ req.pathname = "/"
    /\ req.method = "GET"
    /\ req.q = Str(<<"f", "o", "o">>)
    /\ resp = [status |-> 404, headers |-> {}, body |-> "Not Found"]

(* C12: an invocation for /search with a non-empty q has issued exactly   *)
(* one outbound GET from its first step on, however the call ends; no     *)
(* invocation ever holds a second outbound request.                        *)
C12_OneOutboundCall ==
    /\ Len(outbound) <= 1
    /\ (pc # "idle" /\ SearchWithQuery) =>
          /\ Len(outbound) = 1
          /\ outbound[1].method = "GET"

C12_Witness ==
    /\ Done
    /\ SearchWithQuery
    /\ reply.kind = "resolved"
    /\ ~reply.valid
    /\ log = <<JsonError>>
    /\ Len(outbound) = 1
    /\ outbound[1].method = "GET"

(* The upstream URL template of each copy, and the percent-encoding of    *)
(* each query of Queries, written out.                                     *)
UrlTemplate ==
    IF impl = "js"
    THEN "https://playground.com/_next/data/ba0kOy0FZsenBfbBIZHrR/search.json?q="
    ELSE "https://playground.com/_next/data/DKheFsybTy-HQ-Exsbzy9/search.json?q="

EncodedQuery(q) ==
    IF q = <<"f", "o", "o">> THEN "foo"
    ELSE IF q = <<"a", " ", "b">> THEN "a%20b"
    ELSE IF q = <<"\"", "&">> THEN "%22%26"
    ELSE IF q = <<"%", "\\">> THEN "%25%5C"
    ELSE "?"

KeptByEncoding == {"f", "o", "a", "b"}

(* C13: for a non-empty q the outbound URL is the template followed by    *)
(* the percent-encoding of q, the 404 no-results message of the same      *)
(* invocation holds the raw q, and the URL holds the raw q exactly when   *)
(* q has no character that percent-encoding changes.                      *)
C13_EncodedOutRawBack ==
    (pc # "idle" /\ SearchWithQuery) =>
        /\ outbound = << [method |-> "GET", url |-> UrlTemplate \o EncodedQuery(req.q.v)] >>
        /\ (Done /\ resp.status = 404) => resp.body = NoResultsBody(req.q.v)
        /\ (outbound[1].url = UrlTemplate \o Join(req.q.v))
              <=> (\A k \in 1..Len(req.q.v) : req.q.v[k] \in KeptByEncoding)

C13_Witness ==
    /\ Done
    /\ req.q = Str(<<"%", "\\">>)
    /\ resp.status = 404
    /\ resp.body = "{\"error\":\"No results found for \\\"%\\\\\\\".\"}"
    /\ impl = "ts"
    /\ outbound[1].url =
          "https://playground.com/_next/data/DKheFsybTy-HQ-Exsbzy9/search.json?q=%25%5C"

(* C18: an invocation that answers 500 has written exactly one error log  *)
(* line, and has it written in every state in which that response exists; *)
(* an invocation that answers 200, 400 or 404 has written none, and none   *)
(* is written while the invocation is still waiting.                       *)
C18_LogOnFaultOnly ==
    /\ pc \in {"fetch", "json"} => log = <<>>
    /\ Done => IF resp.status = 500 THEN Len(log) = 1 ELSE log = <<>>

C18_Witness ==
    /\ Done
    /\ resp.status = 500
    /\ reply.kind = "resolved"
    /\ reply.valid
    /\ reply.root = NullRoot
    /\ log = <<Error("TypeError", "Cannot read properties of null (reading 'pageProps')")>>

Contains(s, part) ==
    \E k \in 1..(Len(s) - Len(part) + 1) : SubSeq(s, k, k + Len(part) - 1) = part

(* C19: when the first element has a user object the response is 200,     *)
(* with nothing logged, whichever of prompt, url and user.displayName is  *)
(* absent: the member of an absent field is left out of the body, a       *)
(* present one is carried, and only title gets a default.                 *)
C19_AbsentFieldsTolerated ==
    (Done /\ SearchWithQuery /\ HasResults
          /\ FirstOfData.t = "obj" /\ FirstOfData.user.t = "obj") =>
        /\ resp.status = 200
        /\ log = <<>>
        /\ Contains(resp.body, "\"title\":")
        /\ Contains(resp.body, "\"prompt\":") <=> FirstOfData.prompt.t # "undef"
        /\ Contains(resp.body, "\"user\":") <=> FirstOfData.user.displayName.t # "undef"
        /\ Contains(resp.body, "\"imageUrl\":") <=> FirstOfData.url.t # "undef"

C19_Witness ==
    /\ Done
    /\ HasResults
    /\ FirstOfData = Element(Undef, Undef, User("obj", Undef), Undef)
    /\ resp.status = 200
    /\ resp.body = "{\"title\":\"N/A\"}"

(* What a request and the outcome of its outbound call determine: the     *)
(* response, and the number of error log lines.                           *)
Faulted(rep) ==
    \/ rep.kind = "rejected"
    \/ ~rep.valid
    \/ rep.root.t = "null"
    \/ rep.root.pageProps.t \in {"undef", "null"}
    \/ /\ rep.root.pageProps.data.t = "arr"
       /\ Len(rep.root.pageProps.data.e) > 0
       /\ \/ rep.root.pageProps.data.e[1].t = "null"
          \/ rep.root.pageProps.data.e[1].user.t \in {"undef", "null"}

ExpectedResponse(request, rep) ==
    IF request.pathname # "/search"
    THEN [status |-> 404, headers |-> {}, body |-> "Not Found"]
    ELSE IF request.q = Null \/ request.q = Str(<<>>)
    THEN [status |-> 400, headers |-> {}, body |-> MissingQueryBody]
    ELSE IF Faulted(rep)
    THEN [status |-> 500, headers |-> {}, body |-> GenericErrorBody]
    ELSE IF rep.root.pageProps.data.t = "arr" /\ Len(rep.root.pageProps.data.e) > 0
    THEN [status |-> 200, headers |-> JsonHeaders,
          body |-> ShapedBody(rep.root.pageProps.data.e[1])]
    ELSE [status |-> 404, headers |-> {}, body |-> NoResultsBody(request.q.v)]

ExpectedLogLines(request, rep) ==
    IF request.pathname = "/search" /\ request.q # Null /\ request.q # Str(<<>>)
       /\ Faulted(rep)
    THEN 1 ELSE 0

(* C20: the TypeScript copy and the compiled copy of the handler behave    *)
(* alike but for the build identifier of the URL template: in either copy *)
(* the response and the number of log lines are those the request and the *)
(* upstream outcome determine, and the outbound calls are none, or one    *)
(* GET of the copy's template followed by the same encoded query.         *)
C20_CopiesAgree ==
    /\ impl \in {"js", "ts"}
    /\ pc # "idle" =>
          outbound = IF SearchWithQuery
                     THEN << [method |-> "GET",
                              url |-> UrlTemplate \o EncodedQuery(req.q.v)] >>
                     ELSE <<>>
    /\ Done =>
          /\ resp = ExpectedResponse(req, reply)
          /\ Len(log) = ExpectedLogLines(req, reply)

C20_Witness ==
    /\ impl = "js"
    /\ Done
    /\ req.q = Str(<<"f", "o", "o">>)
    /\ HasResults
    /\ FirstOfData.title = Str(<<>>)
    /\ resp.status = 200
    /\ outbound[1].url =
          "https://playground.com/_next/data/ba0kOy0FZsenBfbBIZHrR/search.json?q=foo"

(* C14: an invocation holds no response while it waits, ends with exactly *)
(* one response of status 200, 400, 404 or 500 and never with a thrown    *)
(* error, for every upstream outcome; and when the outbound call settles  *)
(* every waiting invocation eventually returns.                            *)
C14_AlwaysOneResponse ==
    /\ [](pc \in {"fetch", "json"} => resp = NoResponse)
    /\ [](Done => resp.status \in {200, 400, 404, 500})
    /\ [][(pc \in {"fetch", "json"} /\ resp' # resp) => pc' = "done"]_vars
    /\ (pc \in {"fetch", "json"}) ~> Done

C14_Witness ==
    /\ Done
    /\ SearchWithQuery
    /\ HasResults
    /\ FirstOfData = NullElement
    /\ reply.status = 500
    /\ resp.status = 500
    /\ log = <<Error("TypeError", "Cannot read properties of null (reading 'title')")>>

(* C15: the handler keeps no state between invocations: whatever requests *)
(* ran before a request or run along with it, on its connection or on     *)
(* another, the response the handler returns for it is the one its path,  *)
(* its q value and the outcome of its own outbound call determine; two    *)
(* requests alike with outcomes alike get responses alike.                *)
Returning(r) == rq[r].st = "responding"

C15_Stateless ==
    /\ \A r \in Reqs :
          Returning(r) => rq[r].resp = ExpectedResponse(rq[r].req, rq[r].reply)
    /\ \A r, q \in Reqs :
          /\ Returning(r) /\ Returning(q)
          /\ rq[r].req = rq[q].req
          /\ rq[r].reply = rq[q].reply
          => rq[r].resp = rq[q].resp

(* Two requests alike in flight together, their outbound calls ending     *)
(* differently, each with the response of its own outcome.                *)
C15_Witness ==
    \E r, q \in Reqs :
       /\ Returning(r) /\ Returning(q)
       /\ rq[r].req = rq[q].req
       /\ rq[r].reply.kind = "resolved" /\ rq[q].reply.kind = "rejected"
       /\ rq[r].resp.status = 200 /\ rq[q].resp.status = 500

(* C17: a bad request never stops the listener: in a step in which the    *)
(* handler throws, or the sending of a response fails, the connection of  *)
(* that request is closed and untracked, every other connection stays as  *)
(* it is, tracked and open if it was, and the accept loop, the listener   *)
(* and the closed flag stay as they are; and whenever the accept loop     *)
(* awaits a connection, a connection not yet seen can be accepted.        *)
Fails(r) == rq[r].st # "failed" /\ rq'[r].st = "failed"

C17_OnlyThatConnection ==
    /\ [][\A r \in Reqs : Fails(r) =>
             /\ ~cn'[rq'[r].conn].open
             /\ rq'[r].conn \notin httpConnections'
             /\ \A d \in Conns \ {rq'[r].conn} :
                   /\ cn'[d] = cn[d]
                   /\ d \in httpConnections' <=> d \in httpConnections
             /\ servePc' = servePc
             /\ listeners' = listeners
             /\ listenerOpen' = listenerOpen
             /\ closed' = closed]_vars
    /\ [](servePc = "accept" /\ ~closed =>
            \A c \in Conns :
               (cn[c].st = "none" /\ \A d \in Conns : d < c => cn[d].st # "none")
               => ENABLED AcceptConn(c))

(* A request has failed and its connection is closed, while another      *)
(* connection is tracked and open, a request on a connection accepted    *)
(* after the failed one's has been answered, and the accept loop awaits  *)
(* the next connection.                                                   *)
C17_Witness ==
    \E r, q \in Reqs, d \in Conns :
       /\ rq[r].st = "failed"
       /\ ~cn[rq[r].conn].open
       /\ rq[q].st = "sent" /\ rq[q].conn > rq[r].conn /\ q > r
       /\ d \in httpConnections /\ cn[d].open /\ cn[d].st = "serving"
       /\ servePc = "accept" /\ listenerOpen /\ ~closed

(* C16: while a request awaits its outbound call, the others go on: with  *)
(* clients that stay connected and nothing that makes an outbound call    *)
(* settle, a request whose outbound call has settled, or that needs none, *)
(* is eventually sent its response; a request not yet taken is eventually *)
(* taken while a connection is served, whatever is in flight on it; and a *)
(* connection not yet seen is eventually taken while the accept loop      *)
(* runs, whatever serving loops are running.                              *)
C16_OthersProgress ==
    /\ \A r \in Reqs : (rq[r].st \in {"json", "responding"}) ~> (rq[r].st = "sent")
    /\ \A r \in Reqs :
          (rq[r].st = "none" /\ \E c \in Conns : cn[c].st = "serving")
          ~> (rq[r].st # "none")
    /\ \A c \in Conns : (servePc = "accept" /\ cn[c].st = "none") ~> (cn[c].st # "none")

(* A request still awaits its outbound call while a request taken after   *)
(* it on the same connection has been sent its response, and a later      *)
(* connection is served.                                                  *)
C16_Witness ==
    \E r, q \in Reqs, d \in Conns :
       /\ r < q
       /\ rq[r].st = "fetch"
       /\ rq[q].st = "sent" /\ rq[q].conn = rq[r].conn
       /\ d > rq[r].conn /\ cn[d].st = "serving"

(* C22 as stated: the upstream status is never inspected, and a reply     *)
(* with a status other than 2xx whose body holds a non-empty              *)
(* pageProps.data yields 200 with the shaped result.                      *)
NonOkReply == ParsedBody /\ reply.status \notin 200..299

C22_Original ==
    (Done /\ SearchWithQuery /\ NonOkReply /\ HasResults) =>
        /\ resp.status = 200
        /\ resp.body = ShapedBody(FirstOfData)

(* C22: the handler never inspects the upstream status: the response to  *)
(* a /search request with a query is the one the parsed body determines, *)
(* so a reply with a status other than 2xx yields 200 with the shaped    *)
(* result when pageProps.data is non-empty and its first element is an   *)
(* object whose user is neither absent nor null, 500 when the first      *)
(* element is null or has no user, and the 404 no-results response when  *)
(* pageProps is there with empty or absent data.                         *)
C22_StatusIgnored ==
    (Done /\ SearchWithQuery /\ NonOkReply) =>
        /\ resp = ExpectedResponse(req, [reply EXCEPT !.status = 200])
        /\ (HasResults /\ FirstOfData.t = "obj"
                       /\ FirstOfData.user.t \notin {"undef", "null"}) =>
              /\ resp.status = 200
              /\ resp.body = ShapedBody(FirstOfData)
        /\ (HasResults /\ (FirstOfData.t = "null"
                           \/ FirstOfData.user.t \in {"undef", "null"})) =>
              /\ resp.status = 500
              /\ resp.body = GenericErrorBody
        /\ (HasPageProps /\ ~HasResults) =>
              /\ resp.status = 404
              /\ resp.body = NoResultsBody(req.q.v)

C22_Witness ==
    /\ Done
    /\ req.q = Str(<<"f", "o", "o">>)
    /\ reply.status = 500
    /\ HasResults
    /\ FirstOfData = Element(Str(<<"T">>), Str(<<"P">>), User("obj", Str(<<"U">>)),
                             Str(<<"http://x">>))
    /\ resp.status = 200
    /\ resp.body = "{\"title\":\"T\",\"prompt\":\"P\",\"user\":\"U\",\"imageUrl\":\"http://x\"}"

(* C23: a response carries the header Content-Type: application/json if  *)
(* and only if its status is 200, and no other header ever; the 400, the *)
(* 404 no-results and the 500 responses have a JSON body without the     *)
(* header, the 404 of a routing miss has the plain text "Not Found"      *)
(* without it.                                                            *)
C23_ContentTypeOn200Only ==
    Done =>
        /\ resp.headers = IF resp.status = 200 THEN JsonHeaders ELSE {}
        /\ resp.status \in {200, 400, 404, 500}
        /\ resp.status = 400 => resp.body = MissingQueryBody
        /\ resp.status = 500 => resp.body = GenericErrorBody
        /\ resp.status = 404 =>
              IF req.pathname = "/search"
              THEN resp.body = NoResultsBody(req.q.v)
              ELSE resp.body = "Not Found"
        /\ resp.status = 200 => StartsWith(resp.body, "{\"title\":")

C23_Witness ==
    /\ Done
    /\ req.q = Str(<<"f", "o", "o">>)
    /\ req.pathname = "/search"
    /\ resp.status = 404
    /\ resp.headers = {}
    /\ resp.body = "{\"error\":\"No results found for \\\"foo\\\".\"}"

(* C21: no order is imposed across requests: when the handler has        *)
(* returned for a request whose connection is open, its response can be  *)
(* sent at once, whatever earlier requests are still in flight on other  *)
(* connections, and it is the response that request gets alone.          *)
InFlight(r) == rq[r].st \in {"fetch", "json", "responding"}

C21_NoOrdering ==
    \A r, q \in Reqs :
       (/\ r < q
        /\ InFlight(r)
        /\ Returning(q) /\ cn[rq[q].conn].open
        /\ rq[q].conn # rq[r].conn)
       => /\ ENABLED RespondOk(q)
          /\ rq[q].resp = ExpectedResponse(rq[q].req, rq[q].reply)

(* The request that came later, on another connection, has been sent its *)
(* response while the one that came earlier still awaits its outbound    *)
(* call.                                                                  *)
C21_Witness ==
    \E r, q \in Reqs :
       /\ r < q
       /\ rq[r].st = "fetch"
       /\ rq[q].st = "sent"
       /\ rq[q].conn # rq[r].conn
       /\ cn[rq[r].conn].open

C25_FirstClose ==
    [][(~closed /\ closed') =>
          /\ listeners' = {}
          /\ httpConnections' = {}
          /\ "listener" \in listeners => ~listenerOpen'
          /\ "listener" \notin listeners => listenerOpen' = listenerOpen
          /\ \A c \in Conns :
                IF c \in httpConnections
                THEN ~cn'[c].open /\ cn'[c].st = cn[c].st
                ELSE cn'[c] = cn[c]
          /\ thrown' = thrown]_vars

(* close() has closed the listener serve() was accepting on and two      *)
(* connections that were being served.                                    *)
C25_Witness ==
    /\ closed
    /\ servePc = "accept"
    /\ ~listenerOpen
    /\ listeners = {}
    /\ httpConnections = {}
    /\ \E c, d \in Conns :
          /\ c # d
          /\ cn[c] = [st |-> "serving", open |-> FALSE]
          /\ cn[d] = [st |-> "serving", open |-> FALSE]

(* C26: serve(listener) on a server that is not closed untracks and      *)
(* closes the listener when it settles, whether it returns because the   *)
(* server was closed or rejects with an accept error that is not         *)
(* transient; once it has settled the listener is not tracked.           *)
Settled == servePc \in {"resolved", "rejected"}

C26_ListenerReleased ==
    /\ [](Settled => "listener" \notin listeners /\ ~listenerOpen)
    /\ [](servePc = "resolved" => closed)
    /\ [][(~Settled /\ Settled') =>
             /\ servePc \in {"accept", "delay"}
             /\ IF servePc' = "resolved" THEN closed
                ELSE thrown' = [call |-> "serve", error |-> "Other"]]_vars

(* serve() has rejected with an accept error while the server is open:   *)
(* the listener is closed and not tracked.                                *)
C26_Witness ==
    /\ servePc = "rejected"
    /\ ~closed
    /\ thrown = [call |-> "serve", error |-> "Other"]
    /\ ~listenerOpen
    /\ "listener" \notin listeners

(* C27: the delay after a transient accept error is 5 ms after the first *)
(* error in a row, twice the last delay after each further one, and      *)
(* never more than 1000 ms, where it stays; every delay waited lies in   *)
(* 5..1000; and an accept that succeeds resets the backoff, so that the  *)
(* next error waits 5 ms.                                                 *)
Accepted == \E c \in Conns : cn[c].st = "none" /\ cn'[c].st # "none"

C27_Backoff ==
    /\ [](servePc = "delay" =>
            acceptBackoffDelay \in {5, 10, 20, 40, 80, 160, 320, 640, 1000})
    /\ [][(servePc = "accept" /\ servePc' = "delay") =>
             acceptBackoffDelay' =
                IF acceptBackoffDelay = 0 THEN 5
                ELSE IF acceptBackoffDelay * 2 > 1000 THEN 1000
                ELSE acceptBackoffDelay * 2]_vars
    /\ [][Accepted => acceptBackoffDelay' = 0]_vars
    /\ [][acceptBackoffDelay' # acceptBackoffDelay =>
             Accepted \/ (servePc = "accept" /\ servePc' = "delay")]_vars

(* The delay has reached its cap after a connection had been accepted.   *)
C27_Witness ==
    /\ servePc = "delay"
    /\ acceptBackoffDelay = 1000
    /\ \E c \in Conns : cn[c].st = "serving"

(* C28: after close() on a server whose serve() is running, the accept   *)
(* loop ends and serve() returns: the accept pending on the closed       *)
(* listener fails with an error of a transient class, which starts one   *)
(* backoff delay and never rejects serve(); after the delay the loop     *)
(* sees the closed flag and returns; and from close() on no connection   *)
(* comes to be served.                                                    *)
Running == servePc \in {"accept", "delay"}

C28_CloseEndsServe ==
    /\ (closed /\ Running) ~> (servePc = "resolved")
    /\ [][(closed /\ servePc = "accept" /\ servePc' # "accept") =>
             servePc' \in {"delay", "resolved"}]_vars
    /\ [][(closed /\ servePc = "delay" /\ servePc' # "delay") =>
             servePc' = "resolved"]_vars
    /\ [][closed => \A c \in Conns : cn'[c].st = "serving" => cn[c].st = "serving"]_vars

(* serve() has returned after close() and one backoff delay, the delay   *)
(* of a first error.                                                      *)
C28_Witness ==
    /\ closed
    /\ servePc = "resolved"
    /\ acceptBackoffDelay = 5
    /\ \A c \in Conns : cn[c].st = "none"

(* C29: once the server is closed no HTTP connection is tracked: a       *)
(* connection whose accept completes after close() is tracked, untracked *)
(* and closed in one step, and a response that ends after close() only   *)
(* removes its connection; a tracked connection is always open and being *)
(* served.                                                                *)
C29_NoneTrackedOnceClosed ==
    /\ closed => httpConnections = {}
    /\ \A c \in httpConnections : cn[c] = [st |-> "serving", open |-> TRUE]
    /\ \A c \in Conns : cn[c].open => c \in httpConnections

(* serve() has returned upon a connection that came after close(), which *)
(* was closed at once, and the sending of a response has failed.         *)
C29_Witness ==
    /\ closed
    /\ servePc = "resolved"
    /\ httpConnections = {}
    /\ \A c \in Conns : cn[c] = [st |-> "ended", open |-> FALSE]
    /\ \E r \in Reqs : rq[r].st = "failed"

(* C30: while the server is open an accept error of a transient class    *)
(* does not end the accept loop, and a failure to upgrade an accepted    *)
(* connection only skips that connection; an accept error of any other   *)
(* class ends the loop and rejects serve() with it, and then no          *)
(* connection is accepted any more.                                       *)
C30_AcceptErrors ==
    /\ [][(servePc = "accept" /\ servePc' = "rejected") =>
             /\ thrown'.call = "serve"
             /\ thrown'.error \notin {"BadResource", "InvalidData", "UnexpectedEof",
                                       "ConnectionReset", "NotConnected", ""}]_vars
    /\ [][(~closed /\ servePc = "accept" /\ servePc' = "delay") =>
             UNCHANGED <<listeners, listenerOpen, httpConnections, cn, thrown>>]_vars
    /\ [](servePc = "delay" => ENABLED DelayOver)
    /\ [][(~closed /\ ~closed' /\ servePc = "delay") => servePc' \in {"delay", "accept"}]_vars
    /\ [][\A c \in Conns :
             (cn[c].st # "skipped" /\ cn'[c].st = "skipped") =>
                /\ \A d \in Conns \ {c} : cn'[d] = cn[d]
                /\ UNCHANGED <<listeners, httpConnections, thrown>>
                /\ ~closed => servePc' = "accept" /\ listenerOpen']_vars
    /\ [][servePc = "rejected" =>
             /\ servePc' = "rejected"
             /\ \A c \in Conns : cn[c].st = "none" => cn'[c].st = "none"]_vars

(* serve() has been rejected with an error that is not transient, after  *)
(* transient errors, a skipped connection and an accepted one.           *)
C30_Witness ==
    /\ servePc = "rejected"
    /\ thrown = [call |-> "serve", error |-> "Other"]
    /\ acceptBackoffDelay = 10
    /\ cn[1].st = "skipped"
    /\ cn[2].st = "serving"

====
